---- MODULE Spec2Model ----
(***************************************************************************)
(* Model of get_mpragelike.py: the command-line run of main(), the file    *)
(* selector get_img_paths, the contrast mapping get_img_arrays, the ratio  *)
(* compositor mprage_like_img and the writer save_mprage_like.             *)
(*                                                                         *)
(* Python strings are sequences of one-character strings, so that the      *)
(* substring tests, replace, split, int() and the % formatting of the      *)
(* source are computed and not assumed.  Voxels are IEEE float32 values:   *)
(* sign, 24-bit significand and exponent, or NaN, +Inf, -Inf, with every   *)
(* operation rounded to nearest, ties to even.  Arrays live in a heap      *)
(* indexed by object identity, so that aliasing and in-place assignment    *)
(* are visible.                                                            *)
(***************************************************************************)
EXTENDS Integers, Sequences, FiniteSets, TLC

VARIABLES args, listing, disk, pc, err, reg, fullpath2imgs, bound, refs,
          heap, idx, mprage_like, calls, outs, writes, files

vars == <<args, listing, disk, pc, err, reg, fullpath2imgs, bound, refs,
          heap, idx, mprage_like, calls, outs, writes, files>>

(***************************************************************************)
(* Bounds of the model.                                                    *)
(***************************************************************************)
MaxFiles == 4   \* longest directory listing
MaxSweep == 2   \* most elements in a bracketed regularization list
NVox     == 1   \* voxels per volume

(***************************************************************************)
(* Program constants.                                                      *)
(***************************************************************************)
DefaultReg  == 100
DefaultEcho == 1
Threshold   == 500

(***************************************************************************)
(* Python string operations.                                               *)
(***************************************************************************)
\* t in s
Contains(t, s) ==
    \E p \in 1..(Len(s) - Len(t) + 1) : SubSeq(s, p, p + Len(t) - 1) = t

\* s.replace(c, "") for a one-character c
Remove(s, c) == SelectSeq(s, LAMBDA ch : ch # c)

\* s.split(c) for a one-character c: always at least one (maybe empty) piece
RECURSIVE Split(_, _)
Split(s, c) ==
    IF \A p \in 1..Len(s) : s[p] # c
    THEN <<s>>
    ELSE LET q == CHOOSE p \in 1..Len(s) :
                     /\ s[p] = c
                     /\ \A r \in 1..(p - 1) : s[r] # c
         IN  <<SubSeq(s, 1, q - 1)>> \o Split(SubSeq(s, q + 1, Len(s)), c)

Digits == <<"0", "1", "2", "3", "4", "5", "6", "7", "8", "9">>

\* int() reads every Unicode decimal digit as the ASCII digit of its value.
\* The rows are the ASCII digits and the digits of the scripts whose
\* characters a string of this module can hold: Extended Arabic-Indic,
\* NKo, Bengali, Gujarati, Tamil, Kannada, Sinhala Lith, Lao, Myanmar Shan,
\* Khmer, New Tai Lue, Tai Tham Hora, Tai Tham Tham, Sundanese, Saurashtra,
\* Javanese, Myanmar Tai Laing, Meetei Mayek.  The other decimal digits of
\* Unicode (Arabic-Indic, Devanagari, Fullwidth, ...) cannot be written
\* here and are taken for non-digits.
DigitRows ==
   << Digits,
      <<"۰", "۱", "۲", "۳", "۴", "۵", "۶", "۷", "۸", "۹">>,
      <<"߀", "߁", "߂", "߃", "߄", "߅", "߆", "߇", "߈", "߉">>,
      <<"০", "১", "২", "৩", "৪", "৫", "৬", "৭", "৮", "৯">>,
      <<"૦", "૧", "૨", "૩", "૪", "૫", "૬", "૭", "૮", "૯">>,
      <<"௦", "௧", "௨", "௩", "௪", "௫", "௬", "௭", "௮", "௯">>,
      <<"೦", "೧", "೨", "೩", "೪", "೫", "೬", "೭", "೮", "೯">>,
      <<"෦", "෧", "෨", "෩", "෪", "෫", "෬", "෭", "෮", "෯">>,
      <<"໐", "໑", "໒", "໓", "໔", "໕", "໖", "໗", "໘", "໙">>,
      <<"႐", "႑", "႒", "႓", "႔", "႕", "႖", "႗", "႘", "႙">>,
      <<"០", "១", "២", "៣", "៤", "៥", "៦", "៧", "៨", "៩">>,
      <<"᧐", "᧑", "᧒", "᧓", "᧔", "᧕", "᧖", "᧗", "᧘", "᧙">>,
      <<"᪀", "᪁", "᪂", "᪃", "᪄", "᪅", "᪆", "᪇", "᪈", "᪉">>,
      <<"᪐", "᪑", "᪒", "᪓", "᪔", "᪕", "᪖", "᪗", "᪘", "᪙">>,
      <<"᮰", "᮱", "᮲", "᮳", "᮴", "᮵", "᮶", "᮷", "᮸", "᮹">>,
      <<"꣐", "꣑", "꣒", "꣓", "꣔", "꣕", "꣖", "꣗", "꣘", "꣙">>,
      <<"꧐", "꧑", "꧒", "꧓", "꧔", "꧕", "꧖", "꧗", "꧘", "꧙">>,
      <<"꧰", "꧱", "꧲", "꧳", "꧴", "꧵", "꧶", "꧷", "꧸", "꧹">>,
      <<"꯰", "꯱", "꯲", "꯳", "꯴", "꯵", "꯶", "꯷", "꯸", "꯹">> >>

DigitVal(ch) ==
    (CHOOSE p \in 1..10 : \E r \in 1..Len(DigitRows) : DigitRows[r][p] = ch)
        - 1

IsDigit(ch) == \E r \in 1..Len(DigitRows) : \E p \in 1..10 : DigitRows[r][p] = ch

\* The whitespace int() skips around the number: space, \t, \n, \v (the
\* fourth element), \f, \r, and the Unicode spaces beyond ASCII, of which
\* U+0085, U+00A0 and U+1680 can be written here (U+2000-U+200A, U+2028,
\* U+2029, U+202F, U+205F and U+3000 cannot).  The separators \x1c-\x1f
\* are not among them: str.strip() removes them, int() raises ValueError on
\* them, and the program calls only int().
Whitespace == {" ", "\t", "\n", "", "\f", "\r", "", " ", " "}

\* s without the whitespace int() skips at its two ends
RECURSIVE SkipSpace(_)
SkipSpace(s) ==
    IF s = <<>> THEN s
    ELSE IF Head(s) \in Whitespace THEN SkipSpace(Tail(s))
    ELSE IF s[Len(s)] \in Whitespace
    THEN SkipSpace(SubSeq(s, 1, Len(s) - 1))
    ELSE s

RECURSIVE DigitsVal(_)
DigitsVal(s) ==
    IF s = <<>> THEN 0
    ELSE 10 * DigitsVal(SubSeq(s, 1, Len(s) - 1)) + DigitVal(s[Len(s)])

\* int(s): surrounding whitespace and one sign are accepted, then decimal
\* digits of any script, with single underscores allowed between digits;
\* anything else raises ValueError (ok = FALSE).
PyInt(s) ==
    LET t    == SkipSpace(s)
        sgn  == t # <<>> /\ Head(t) \in {"+", "-"}
        body == IF sgn THEN Tail(t) ELSE t
        good == /\ body # <<>>
                /\ IsDigit(body[1])
                /\ IsDigit(body[Len(body)])
                /\ \A p \in 1..Len(body) : IsDigit(body[p]) \/ body[p] = "_"
                /\ \A p \in 1..(Len(body) - 1) :
                       ~(body[p] = "_" /\ body[p + 1] = "_")
        num  == DigitsVal(Remove(body, "_"))
    IN  IF ~good THEN [ok |-> FALSE, val |-> 0]
        ELSE [ok |-> TRUE,
              val |-> IF sgn /\ Head(t) = "-" THEN 0 - num ELSE num]

\* str(n) for an integer n
RECURSIVE NatStr(_)
NatStr(n) ==
    IF n < 10 THEN <<Digits[n + 1]>>
    ELSE NatStr(n \div 10) \o <<Digits[(n % 10) + 1]>>

PyStr(n) == IF n < 0 THEN <<"-">> \o NatStr(0 - n) ELSE NatStr(n)

\* os.path.join(p, n) for a relative name n: no separator is added after
\* an empty p or a p that ends in one
Join(p, n) == IF p = <<>> \/ p[Len(p)] = "/" THEN p \o n
              ELSE p \o <<"/">> \o n

(***************************************************************************)
(* float32 values (get_fdata(dtype='float32')) and the correctly rounded   *)
(* arithmetic numpy does on them.  A finite value is s * m * 2^e with      *)
(* sign s, 0 <= m < 2^24 and EMin <= e <= EMax, in canonical form: m has   *)
(* 24 bits, or e = EMin (subnormal), or m = 0 and e = 0 (signed zero).     *)
(***************************************************************************)
MantBits == 24
EMin     == 0 - 149
EMax     == 104

Zero(s) == [k |-> "fin", s |-> s, m |-> 0, e |-> 0]
NaN     == [k |-> "nan", s |-> 1, m |-> 0, e |-> 0]
Inf(s)  == [k |-> "inf", s |-> s, m |-> 0, e |-> 0]
PInf    == Inf(1)
NInf    == Inf(0 - 1)

RECURSIVE BitLen(_)
BitLen(x) == IF x = 0 THEN 0 ELSE 1 + BitLen(x \div 2)

\* The float32 nearest to s * (big + f) * 2^e, ties to even, where f = 0
\* when ~sticky and 0 < f < 1 when sticky (then big has at least 26 bits).
\* Overflow gives an infinity, underflow a subnormal or a zero.
RoundPack(s, big, e, sticky) ==
    LET len  == BitLen(big)
        drop == IF len - MantBits > EMin - e THEN len - MantBits ELSE EMin - e
    IN  IF big = 0 /\ ~sticky THEN Zero(s)
        ELSE IF drop <= 0
        THEN [k |-> "fin", s |-> s, m |-> big * 2^(0 - drop), e |-> e + drop]
        ELSE IF drop > len THEN Zero(s)
        ELSE LET q    == big \div 2^drop
                 rem  == big % 2^drop
                 half == 2^(drop - 1)
                 up   == \/ rem > half
                         \/ rem = half /\ (sticky \/ q % 2 = 1)
                 m1   == IF up THEN q + 1 ELSE q
                 m2   == IF m1 = 2^MantBits THEN 2^(MantBits - 1) ELSE m1
                 e2   == IF m1 = 2^MantBits THEN e + drop + 1 ELSE e + drop
             IN  IF m2 = 0 THEN Zero(s)
                 ELSE IF e2 > EMax THEN Inf(s)
                 ELSE [k |-> "fin", s |-> s, m |-> m2, e |-> e2]

\* a Python integer taken into a float32 operation
IntToF(n) == RoundPack(IF n < 0 THEN 0 - 1 ELSE 1,
                       IF n < 0 THEN 0 - n ELSE n, 0, FALSE)

NegV(a) == IF a.k = "nan" THEN a ELSE [a EXCEPT !.s = 0 - a.s]

\* a + b for finite non-zero a, b with a.e >= b.e: the smaller operand is
\* aligned with three extra bits and a sticky bit, then the sum is rounded
AddAligned(a, b) ==
    LET sh     == a.e - b.e
        big_a  == a.m * 8
        big_b  == IF sh >= 28 THEN 0 ELSE (b.m * 8) \div 2^sh
        sticky == IF sh >= 28 THEN TRUE ELSE ((b.m * 8) % 2^sh) # 0
    IN  IF a.s # b.s /\ ~sticky /\ big_a = big_b THEN Zero(1)
        ELSE RoundPack(IF a.s = b.s \/ sticky \/ big_a > big_b
                       THEN a.s ELSE b.s,
                       IF a.s = b.s THEN big_a + big_b
                       ELSE IF sticky THEN big_a - big_b - 1
                       ELSE IF big_a > big_b THEN big_a - big_b
                       ELSE big_b - big_a,
                       a.e - 3, sticky)

\* a + b
FAdd(a, b) ==
    CASE a.k = "nan" \/ b.k = "nan"   -> NaN
      [] a.k = "inf" /\ b.k = "inf"   -> IF a.s = b.s THEN a ELSE NaN
      [] a.k = "inf"                  -> a
      [] b.k = "inf"                  -> b
      [] a.m = 0 /\ b.m = 0           -> IF a.s = b.s THEN a ELSE Zero(1)
      [] a.m = 0                      -> b
      [] b.m = 0                      -> a
      [] OTHER -> AddAligned(IF a.e >= b.e THEN a ELSE b,
                             IF a.e >= b.e THEN b ELSE a)

\* a + r and a - r for a Python integer r (r becomes a float32 first)
FAddInt(a, r) == FAdd(a, IntToF(r))

FSubInt(a, r) == FAdd(a, NegV(IntToF(r)))

\* 0.5 * a
FHalf(a) == IF a.k # "fin" THEN a ELSE RoundPack(a.s, a.m, a.e - 1, FALSE)

\* floor(n * 2^j / d) and whether a remainder is left, six bits at a time
RECURSIVE LongDiv(_, _, _, _)
LongDiv(q, r, d, j) ==
    IF j = 0 THEN [q |-> q, sticky |-> r # 0]
    ELSE LET c == IF j < 6 THEN j ELSE 6
         IN  LongDiv(q * 2^c + (r * 2^c) \div d, (r * 2^c) % d, d, j - c)

\* a / b
FDiv(a, b) ==
    CASE a.k = "nan" \/ b.k = "nan"   -> NaN
      [] a.k = "inf" /\ b.k = "inf"   -> NaN
      [] a.k = "inf"                  -> Inf(a.s * b.s)
      [] b.k = "inf"                  -> Zero(a.s * b.s)
      [] b.m = 0 -> (IF a.m = 0 THEN NaN ELSE Inf(a.s * b.s))
      [] a.m = 0 -> Zero(a.s * b.s)
      [] OTHER ->
           LET j == 26 + BitLen(b.m) - BitLen(a.m)
               r == LongDiv(a.m \div b.m, a.m % b.m, b.m, j)
           IN  RoundPack(a.s * b.s, r.q, a.e - b.e - j, r.sticky)

\* |a| < |b| for finite a, b
MagLt(a, b) ==
    IF b.m = 0 THEN FALSE
    ELSE IF a.m = 0 THEN TRUE
    ELSE a.e < b.e \/ (a.e = b.e /\ a.m < b.m)

\* a < b (comparisons with NaN are False, -0 equals +0)
FLess(a, b) ==
    CASE a.k = "nan" \/ b.k = "nan" -> FALSE
      [] a.k = "inf" -> a.s < 0 /\ ~(b.k = "inf" /\ b.s < 0)
      [] b.k = "inf" -> b.s > 0
      [] a.m = 0 /\ b.m = 0 -> FALSE
      [] a.m = 0 -> b.s > 0
      [] b.m = 0 -> a.s < 0
      [] a.s # b.s -> a.s < 0
      [] a.s > 0 -> MagLt(a, b)
      [] OTHER -> MagLt(b, a)

\* a > c and a < c for a Python integer c
FGt(a, c) == FLess(IntToF(c), a)

FLt(a, c) == FLess(a, IntToF(c))

(***************************************************************************)
(* File names, markers and command-line words.                             *)
(***************************************************************************)
ExtNii     == <<".", "n", "i", "i">>
PhShort    == <<"_", "p", "h">>
PhLong     == <<"p", "h", "a", "s", "e">>
EchoPrefix == <<"_", "e">>
Label      == <<"m", "p", "r", "a", "g", "e", "-", "l", "i", "k", "e">>

W_all == <<"a", "l", "l">>
W_PD  == <<"P", "D">>
W_MT  == <<"M", "T">>
\* --contrast takes any word; this one names no branch of the compositor
W_pd  == <<"p", "d">>

F_t1_e1      == <<"t", "1", "_", "e", "1", ".", "n", "i", "i">>
F_pd_e1      == <<"p", "d", "_", "e", "1", ".", "n", "i", "i">>
F_mt_e1      == <<"m", "t", "_", "e", "1", ".", "n", "i", "i">>
F_t1_e1_ph   == <<"t", "1", "_", "e", "1", "_", "p", "h", ".", "n", "i", "i">>
F_T1         == <<"T", "1", ".", "n", "i", "i">>
F_PD_gz      == <<"P", "D", ".", "n", "i", "i", ".", "g", "z">>
F_MT_e1      == <<"M", "T", "_", "e", "1", ".", "n", "i", "i">>
F_t1_e1_json == <<"t", "1", "_", "e", "1", ".", "j", "s", "o", "n">>
F_T1_phase   == <<"T", "1", "_", "p", "h", "a", "s", "e", ".", "n", "i", "i">>
F_t1pd_e1    == <<"t", "1", "p", "d", "_", "e", "1", ".", "n", "i", "i">>
F_t1_e2      == <<"t", "1", "_", "e", "2", ".", "n", "i", "i">>
F_b_e1       == <<"b", "_", "e", "1", ".", "n", "i", "i">>

(***************************************************************************)
(* get_img_paths                                                           *)
(***************************************************************************)
\* Python's  a and b  on strings: a when a is empty (falsy), else b
PyAnd(a, b) == IF a = <<>> THEN a ELSE b

IsPhase(m) == Contains(PhShort, m) \/ Contains(PhLong, m)

\* variant: the phase filter is applied to the echo-matched list only
get_img_paths_nophase(path2img, echo, dirlist) ==
    LET echo_num   == EchoPrefix \o PyStr(echo)
        by_echo    == SelectSeq(dirlist,
                          LAMBDA f : Contains(PyAnd(ExtNii, echo_num), f))
        magn_files == IF by_echo = <<>>
                      THEN SelectSeq(dirlist, LAMBDA f : Contains(ExtNii, f))
                      ELSE SelectSeq(by_echo, LAMBDA m : ~IsPhase(m))
    IN  [p \in 1..Len(magn_files) |-> Join(path2img, magn_files[p])]

get_img_paths(path2img, echo, dirlist) ==
    LET echo_num   == EchoPrefix \o PyStr(echo)
        by_echo    == SelectSeq(dirlist,
                          LAMBDA f : Contains(PyAnd(ExtNii, echo_num), f))
        nii_files  == IF by_echo = <<>>
                      THEN SelectSeq(dirlist, LAMBDA f : Contains(ExtNii, f))
                      ELSE by_echo
        magn_files == SelectSeq(nii_files, LAMBDA m : ~IsPhase(m))
    IN  [p \in 1..Len(magn_files) |-> Join(path2img, magn_files[p])]

(***************************************************************************)
(* get_img_arrays                                                          *)
(***************************************************************************)
Kinds == {"t1", "pd", "mt"}

\* the if / elif / elif chain of the loop body, on the full path
KindOf(mpm) ==
    IF Contains(<<"t", "1">>, mpm) \/ Contains(<<"T", "1">>, mpm) THEN "t1"
    ELSE IF Contains(<<"p", "d">>, mpm) \/ Contains(<<"P", "D">>, mpm) THEN "pd"
    ELSE IF Contains(<<"m", "t">>, mpm) \/ Contains(<<"M", "T">>, mpm) THEN "mt"
    ELSE "none"

UpperCase == <<"A", "B", "C", "D", "E", "F", "G", "H", "I", "J", "K", "L", "M",
               "N", "O", "P", "Q", "R", "S", "T", "U", "V", "W", "X", "Y", "Z">>

LowerCase == <<"a", "b", "c", "d", "e", "f", "g", "h", "i", "j", "k", "l", "m",
               "n", "o", "p", "q", "r", "s", "t", "u", "v", "w", "x", "y", "z">>

\* ch.lower() == x, for x a character of an extension below: an ASCII
\* lower-case letter, a digit or the dot.  Only x itself and its ASCII
\* capital lower to x; the two other characters whose lower case holds an
\* ASCII letter, U+0130 and the Kelvin sign U+212A, cannot be written in a
\* string of this module.
LowersTo(ch, x) ==
    \/ ch = x
    \/ \E q \in 1..26 : LowerCase[q] = x /\ UpperCase[q] = ch

\* s.lower() ends with ext, for such an extension: nibabel compares the
\* lower-cased suffix of the name with its tables, and no table entry holds
\* a character outside ASCII, so the lower case of the other characters of
\* the name never enters the comparison
EndsWithNoCase(s, ext) ==
    /\ Len(s) >= Len(ext)
    /\ \A p \in 1..Len(ext) : LowersTo(s[Len(s) - Len(ext) + p], ext[p])

\* extensions of the image classes nib.load tries, without and with a
\* compression suffix
PlainExts == {<<".", "m", "g", "h">>, <<".", "m", "g", "z">>,
              <<".", "p", "a", "r">>, <<".", "r", "e", "c">>,
              <<".", "g", "i", "i">>}

PackedExts == {ExtNii, <<".", "i", "m", "g">>, <<".", "h", "d", "r">>,
               <<".", "m", "n", "c">>, <<".", "h", "e", "a", "d">>,
               <<".", "b", "r", "i", "k">>}

PackSuffixes == {<<".", "g", "z">>, <<".", "b", "z", "2">>,
                 <<".", "z", "s", "t">>}

\* nib.load finds an image class for the name: the class is chosen by the
\* extension, compared in lower case.  Whether the content is then read as
\* an image of that class is the file's own property (field ok of the disk).
Loadable(path) ==
    \/ \E x \in PlainExts \cup PackedExts : EndsWithNoCase(path, x)
    \/ \E x \in PackedExts : \E z \in PackSuffixes :
           EndsWithNoCase(path, x \o z)

NoBinding == [bound |-> [k \in Kinds |-> <<>>],
              refs  |-> [t1 |-> 0, pd |-> 0, mt |-> 0, aff |-> 0]]

\* variant: a kind that is already bound keeps its first file
BindOne_first(st, mpm, dsk) ==
    LET kind == KindOf(mpm)
        id   == Len(st.heap) + 1
    IN  IF st.err # "none" \/ kind = "none" THEN st
        ELSE IF st.refs[kind] # 0 THEN st
        ELSE IF ~Loadable(mpm) \/ ~dsk[mpm].ok
        THEN [st EXCEPT !.err = "ImageFileError"]
        ELSE [st EXCEPT
                !.heap  = st.heap \o <<dsk[mpm].data, dsk[mpm].affine>>,
                !.bound = [@ EXCEPT ![kind] = mpm],
                !.refs  = IF kind = "t1"
                          THEN [@ EXCEPT !.t1 = id, !.aff = id + 1]
                          ELSE [@ EXCEPT ![kind] = id]]

\* one pass of the loop body: load the file and rebind the names of its kind
BindOne(st, mpm, dsk) ==
    LET kind == KindOf(mpm)
        id   == Len(st.heap) + 1
    IN  IF st.err # "none" \/ kind = "none" THEN st
        ELSE IF ~Loadable(mpm) \/ ~dsk[mpm].ok
        THEN [st EXCEPT !.err = "ImageFileError"]
        ELSE [st EXCEPT
                !.heap  = st.heap \o <<dsk[mpm].data, dsk[mpm].affine>>,
                !.bound = [@ EXCEPT ![kind] = mpm],
                !.refs  = IF kind = "t1"
                          THEN [@ EXCEPT !.t1 = id, !.aff = id + 1]
                          ELSE [@ EXCEPT ![kind] = id]]

RECURSIVE BindLoop(_, _, _)
BindLoop(st, paths, dsk) ==
    IF paths = <<>> THEN st
    ELSE BindLoop(BindOne(st, Head(paths), dsk), Tail(paths), dsk)

\* variant: a kind without a file silently shares the T1 volume
get_img_arrays_default(paths, hp, dsk) ==
    LET st == BindLoop([bound |-> NoBinding.bound, refs |-> NoBinding.refs,
                        heap |-> hp, err |-> "none"], paths, dsk)
    IN  IF st.err = "none" /\ st.refs.t1 = 0
        THEN [st EXCEPT !.err = "UnboundLocalError"]
        ELSE IF st.err # "none" THEN st
        ELSE [st EXCEPT
                !.bound = [k \in Kinds |-> IF st.refs[k] = 0 THEN st.bound.t1
                                           ELSE st.bound[k]],
                !.refs  = [@ EXCEPT
                             !.pd = IF @ = 0 THEN st.refs.t1 ELSE @,
                             !.mt = IF @ = 0 THEN st.refs.t1 ELSE @]]

\* the loop, then the return statement that reads all nine local names
get_img_arrays(paths, hp, dsk) ==
    LET st == BindLoop([bound |-> NoBinding.bound, refs |-> NoBinding.refs,
                        heap |-> hp, err |-> "none"], paths, dsk)
    IN  IF st.err = "none" /\ \E k \in Kinds : st.refs[k] = 0
        THEN [st EXCEPT !.err = "UnboundLocalError"]
        ELSE st

(***************************************************************************)
(* mprage_like_img                                                         *)
(***************************************************************************)
\* the element-wise ratios of lines 124, 127 and 130
RatioAll(t1, pd, mt, r) ==
    FDiv(FSubInt(t1, r), FAddInt(FHalf(FAdd(pd, mt)), r))

RatioMT(t1, mt, r) == FDiv(FSubInt(t1, r), FAddInt(mt, r))

RatioPD(t1, pd, r) == FDiv(FSubInt(t1, r), FAddInt(pd, r))

\* the if / elif / elif of lines 123-130: the array bound to mprage_like,
\* or no binding at all for a weight other than 'all', 'MT', 'PD'
RawArray(hp, t1w_data, pdw_data, mtw_data, r, weight) ==
    LET t1 == hp[t1w_data]
        pd == hp[pdw_data]
        mt == hp[mtw_data]
    IN  IF weight = W_all
        THEN [isbound |-> TRUE,
              arr |-> [v \in 1..Len(t1) |-> RatioAll(t1[v], pd[v], mt[v], r)]]
        ELSE IF weight = W_MT
        THEN [isbound |-> TRUE,
              arr |-> [v \in 1..Len(t1) |-> RatioMT(t1[v], mt[v], r)]]
        ELSE IF weight = W_PD
        THEN [isbound |-> TRUE,
              arr |-> [v \in 1..Len(t1) |-> RatioPD(t1[v], pd[v], r)]]
        ELSE [isbound |-> FALSE, arr |-> <<>>]

\* np.nan_to_num on one element
nan_to_num(a) ==
    CASE a.k = "nan" -> Zero(1)
      [] a.k = "inf" -> [k |-> "fin", s |-> a.s, m |-> 2^MantBits - 1,
                         e |-> EMax]
      [] OTHER        -> a

\* arr[mask] = 0, the mask given as the set of positions where it is True
ZeroWhere(arr, mask) ==
    [v \in 1..Len(arr) |-> IF v \in mask THEN Zero(1) ELSE arr[v]]

\* lines 134-141 on the array the arithmetic has made: it is allocated,
\* nan_to_num allocates a copy, the masked assignments for +Inf and for
\* values above 500 act in place on that copy through aliases
CleanTop(hp, raw) ==
    LET h1 == Append(hp, raw)
        h2 == Append(h1, [v \in 1..Len(raw) |-> nan_to_num(raw[v])])
        id == Len(hp) + 2
        h3 == [h2 EXCEPT ![id] = ZeroWhere(@, {v \in 1..Len(@) : @[v] = PInf})]
    IN  [h3 EXCEPT ![id] = ZeroWhere(@,
                               {v \in 1..Len(@) : FGt(@[v], Threshold)})]

\* line 141: the masked assignment for the negative values
CleanNeg(hp, id) ==
    [hp EXCEPT ![id] = ZeroWhere(@, {v \in 1..Len(@) : FLt(@[v], 0)})]

\* the result of the call: UnboundLocalError at line 134 when no branch has
\* bound mprage_like, otherwise the cleaned array
Returned(hp, res, h, id) ==
    IF ~res.isbound
    THEN [heap |-> hp, ref |-> 0, err |-> "UnboundLocalError"]
    ELSE [heap |-> h, ref |-> id, err |-> "none"]

Clean(hp, res) ==
    Returned(hp, res, CleanNeg(CleanTop(hp, res.arr), Len(hp) + 2),
             Len(hp) + 2)

\* variant: the negative values are left in the result
mprage_like_img_noneg(hp, t1w_data, pdw_data, mtw_data, r, weight) ==
    LET res == RawArray(hp, t1w_data, pdw_data, mtw_data, r, weight)
    IN  Returned(hp, res, CleanTop(hp, res.arr), Len(hp) + 2)

\* variant: the ratio and the cleanup are computed in place in the T1 array
mprage_like_img_inplace(hp, t1w_data, pdw_data, mtw_data, r, weight) ==
    LET res == RawArray(hp, t1w_data, pdw_data, mtw_data, r, weight)
        id  == t1w_data
        h2  == [hp EXCEPT ![id] =
                   [v \in 1..Len(res.arr) |-> nan_to_num(res.arr[v])]]
        h3  == [h2 EXCEPT ![id] = ZeroWhere(@, {v \in 1..Len(@) : @[v] = PInf})]
        h4  == [h3 EXCEPT ![id] = ZeroWhere(@,
                   {v \in 1..Len(@) : FGt(@[v], Threshold)})]
    IN  Returned(hp, res, CleanNeg(h4, id), id)

\* lines 120-146
mprage_like_img(hp, t1w_data, pdw_data, mtw_data, r, weight) ==
    Clean(hp, RawArray(hp, t1w_data, pdw_data, mtw_data, r, weight))

(***************************************************************************)
(* save_mprage_like                                                        *)
(***************************************************************************)
\* variant: the regularization value is left out of the name
mprage_img_name_noreg(subID, echo, weight, regtxt) ==
    subID \o <<"_">> \o Label \o <<"_", "e">> \o PyStr(echo) \o <<"_">>
          \o weight \o ExtNii

\* '%s_%s_e%s_%s_reg%s.nii' % (subID, 'mprage-like', echo, weight, reg);
\* the three branches of the source build the same name
mprage_img_name(subID, echo, weight, regtxt) ==
    subID \o <<"_">> \o Label \o <<"_", "e">> \o PyStr(echo) \o <<"_">>
          \o weight \o <<"_", "r", "e", "g">> \o regtxt \o ExtNii

\* The file system after nib.save: one file per name, the last write wins.
\* astype(np.float32) copies float32 data unchanged.  With a weight other
\* than 'all', 'PD', 'MT' no branch binds the name and line 168 raises.
save_mprage_like(fs, hp, data, affine, subID, regtxt, echo, weight) ==
    LET name == mprage_img_name(subID, echo, weight, regtxt)
        img  == [data |-> hp[data], affine |-> hp[affine]]
    IN  IF weight \notin {W_all, W_PD, W_MT}
        THEN [err |-> "UnboundLocalError", name |-> <<>>, files |-> fs]
        ELSE [err |-> "none", name |-> name,
              files |-> [n \in (DOMAIN fs) \cup {name} |->
                            IF n = name THEN img ELSE fs[n]]]

(***************************************************************************)
(* main: the --reg argument                                                *)
(***************************************************************************)
NoReg == [kind |-> "none", val |-> 0, toks |-> <<>>]

\* lines 46-52.  argparse hands over the default as the integer it was
\* declared with and a typed word as a string; '[' in <int> is a TypeError.
parse_reg(a) ==
    IF a.kind = "int"
    THEN [err |-> "TypeError", reg |-> NoReg]
    ELSE IF Contains(<<"[">>, a.s)
    THEN [err |-> "none",
          reg |-> [kind |-> "list", val |-> 0,
                   toks |-> Split(Remove(Remove(a.s, "["), "]"), ",")]]
    ELSE IF PyInt(a.s).ok
    THEN [err |-> "none",
          reg |-> [kind |-> "int", val |-> PyInt(a.s).val, toks |-> <<>>]]
    ELSE [err |-> "ValueError", reg |-> NoReg]

(***************************************************************************)
(* Inputs: command lines, directory listings, file contents.               *)
(***************************************************************************)
\* elements of a bracketed list: two numbers, one written with an
\* underscore, and a word that is no number
Tokens == {<<"0">>, <<"1", "_", "0">>, <<"x">>}

\* --reg given as one word: the elements above, 100 plain and after a
\* space, and 5 as an Extended Arabic-Indic digit between a vertical tab
\* and a no-break space
Words == Tokens \cup {<<"1", "0", "0">>, <<" ", "1", "0", "0">>,
                      <<"", "۵", " ">>}

RECURSIVE CommaJoin(_)
CommaJoin(ts) ==
    IF ts = <<>> THEN <<>>
    ELSE IF Len(ts) = 1 THEN ts[1]
    ELSE ts[1] \o <<",">> \o CommaJoin(Tail(ts))

TokenLists == UNION {[1..n -> Tokens] : n \in 0..MaxSweep}

StrArg(s) == [kind |-> "str", val |-> 0, s |-> s]

\* --reg omitted (the declared default), one word, a bracketed list, and a
\* list with its closing or opening bracket missing
RegArgs ==
    {[kind |-> "int", val |-> DefaultReg, s |-> <<>>]}
    \cup {StrArg(t) : t \in Words}
    \cup {StrArg(<<"[">> \o CommaJoin(ts) \o <<"]">>) : ts \in TokenLists}
    \cup {StrArg(<<"[">> \o CommaJoin(ts)) : ts \in TokenLists}
    \cup {StrArg(CommaJoin(ts) \o <<"]">>) : ts \in TokenLists}

Contrasts == {W_all, W_PD, W_MT, W_pd}

\* os.listdir: distinct names in any order
Dirs(names, max) ==
    {l \in UNION {[1..n -> names] : n \in 0..max} :
        \A p, q \in 1..Len(l) : p # q => l[p] # l[q]}

MainNames == {F_t1_e1, F_pd_e1, F_mt_e1, F_t1_e1_ph}

SelNames == {F_t1_e1, F_pd_e1, F_MT_e1, F_t1_e1_ph, F_T1, F_PD_gz,
             F_t1_e1_json, F_T1_phase, F_t1pd_e1, F_t1_e2, F_b_e1}

\* two scans: in "A" every file is an image, in "B" the content of the PD
\* file is not
Scans == {"A", "B"}

\* voxel intensity of a file of each kind
ScanVal(kind) ==
    CASE kind = "t1" -> 150 [] kind = "pd" -> 100 [] kind = "mt" -> 100
      [] OTHER -> 7

ScanDisk(scan, path2img, dirlist) ==
    [p \in {Join(path2img, dirlist[q]) : q \in 1..Len(dirlist)} |->
        [data   |-> [v \in 1..NVox |->
                        IntToF(ScanVal(KindOf(p)) + v - 1)],
         affine |-> <<IntToF(IF KindOf(p) = "t1" THEN 1 ELSE 2)>>,
         ok     |-> ~(scan = "B" /\ KindOf(p) = "pd")]]

\* Voxel values of the three volumes for the compositor: negative, zero,
\* ordinary, infinite and NaN intensities, and values where float32
\* rounding decides the result (2097152512 / 4194305 rounds to exactly 500,
\* 16777216 + 1 rounds to 16777216).
T1Vals == {IntToF(0 - 100), IntToF(0), IntToF(150), IntToF(2097152512),
           PInf, NaN}

PDVals == {IntToF(0 - 100), IntToF(0), IntToF(1), IntToF(4194305),
           IntToF(16777216), PInf}

MTVals == {IntToF(0), IntToF(1), IntToF(150), NaN}

(***************************************************************************)
(* The run of main() as a state machine.                                   *)
(***************************************************************************)
Fresh ==
    /\ err = "none"
    /\ fullpath2imgs = <<>>
    /\ bound = NoBinding.bound
    /\ refs = NoBinding.refs
    /\ heap = <<>>
    /\ idx = 0
    /\ mprage_like = 0
    /\ calls = <<>>
    /\ outs = <<>>
    /\ writes = <<>>
    /\ files = <<>>

Init ==
    /\ args \in [path2img : {<<"d">>}, echo : {DefaultEcho}, reg : RegArgs,
                 subid : {<<"s">>}, contrast : Contrasts]
    /\ listing \in Dirs(MainNames, MaxFiles)
    /\ disk \in {ScanDisk(sc, args.path2img, listing) : sc \in Scans}
    /\ pc = "parse"
    /\ reg = NoReg
    /\ Fresh

Fail(e) ==
    /\ pc' = "failed"
    /\ err' = e

\* lines 44-52
ParseReg ==
    /\ pc = "parse"
    /\ LET r == parse_reg(args.reg)
       IN  IF r.err # "none"
           THEN Fail(r.err) /\ UNCHANGED reg
           ELSE pc' = "paths" /\ reg' = r.reg /\ UNCHANGED err
    /\ UNCHANGED <<args, listing, disk, fullpath2imgs, bound, refs, heap, idx,
                   mprage_like, calls, outs, writes, files>>

\* line 56
GetImgPaths ==
    /\ pc = "paths"
    /\ fullpath2imgs' = get_img_paths(args.path2img, args.echo, listing)
    /\ pc' = "arrays"
    /\ UNCHANGED <<args, listing, disk, err, reg, bound, refs, heap, idx,
                   mprage_like, calls, outs, writes, files>>

\* line 59
GetImgArrays ==
    /\ pc = "arrays"
    /\ LET st == get_img_arrays(fullpath2imgs, heap, disk)
       IN  /\ bound' = st.bound
           /\ refs' = st.refs
           /\ heap' = st.heap
           /\ IF st.err # "none"
              THEN Fail(st.err) /\ UNCHANGED idx
              ELSE pc' = "compose" /\ idx' = 1 /\ UNCHANGED err
    /\ UNCHANGED <<args, listing, disk, reg, fullpath2imgs, mprage_like,
                   calls, outs, writes, files>>

\* the value handed to the compositor: reg itself, or int(r) in the loop
RegValue == IF reg.kind = "int" THEN [ok |-> TRUE, val |-> reg.val]
            ELSE PyInt(reg.toks[idx])

\* the value handed to the writer: reg itself, or the list element r
RegText == IF reg.kind = "int" THEN PyStr(reg.val) ELSE reg.toks[idx]

\* lines 64 and 72: int(r) is evaluated first and its ValueError comes
\* before the call; once mprage_like_img is entered the call is recorded in
\* calls, whether it returns an array or raises at line 134
Compose ==
    /\ pc = "compose"
    /\ IF ~RegValue.ok
       THEN Fail("ValueError")
            /\ UNCHANGED <<heap, mprage_like, calls, outs>>
       ELSE LET res == mprage_like_img(heap, refs.t1, refs.pd, refs.mt,
                                       RegValue.val, args.contrast)
            IN  IF res.err # "none"
                THEN Fail(res.err)
                     /\ calls' = Append(calls, RegValue.val)
                     /\ UNCHANGED <<heap, mprage_like, outs>>
                ELSE /\ heap' = res.heap
                     /\ mprage_like' = res.ref
                     /\ calls' = Append(calls, RegValue.val)
                     /\ outs' = Append(outs, res.ref)
                     /\ pc' = "save"
                     /\ UNCHANGED err
    /\ UNCHANGED <<args, listing, disk, reg, fullpath2imgs, bound, refs, idx,
                   writes, files>>

\* lines 65 and 73, and the loop step of line 70
Save ==
    /\ pc = "save"
    /\ LET res == save_mprage_like(files, heap, mprage_like, refs.aff,
                                   args.subid, RegText, args.echo,
                                   args.contrast)
       IN  IF res.err # "none"
           THEN Fail(res.err) /\ UNCHANGED <<files, writes, idx>>
           ELSE /\ files' = res.files
                /\ writes' = Append(writes, res.name)
                /\ UNCHANGED err
                /\ IF reg.kind = "list" /\ idx < Len(reg.toks)
                   THEN idx' = idx + 1 /\ pc' = "compose"
                   ELSE pc' = "done" /\ UNCHANGED idx
    /\ UNCHANGED <<args, listing, disk, reg, fullpath2imgs, bound, refs,
                   heap, mprage_like, calls, outs>>

Next == ParseReg \/ GetImgPaths \/ GetImgArrays \/ Compose \/ Save

Spec == Init /\ [][Next]_vars

(***************************************************************************)
(* The selector and the mapping step on their own: the run has parsed      *)
(* --reg 100 and is about to list the directory.                           *)
(***************************************************************************)
InitSel ==
    /\ args \in [path2img : {<<"d">>, <<"m", "t", "/">>}, echo : {1, 2},
                 reg : {StrArg(PyStr(DefaultReg))}, subid : {<<"s">>},
                 contrast : {W_all}]
    /\ listing \in Dirs(SelNames, MaxFiles)
    /\ disk = ScanDisk("A", args.path2img, listing)
    /\ pc = "paths"
    /\ reg = parse_reg(args.reg).reg
    /\ Fresh

NextSel == GetImgPaths \/ GetImgArrays

SpecSel == InitSel /\ [][NextSel]_vars

(***************************************************************************)
(* The compositor on its own: the run has loaded three volumes with any    *)
(* voxel values and is about to call mprage_like_img.                      *)
(***************************************************************************)
CompListing == <<F_t1_e1, F_pd_e1, F_mt_e1>>

InitComp ==
    /\ args \in [path2img : {<<"d">>}, echo : {DefaultEcho},
                 reg : {StrArg(PyStr(r)) : r \in {0, DefaultReg}},
                 subid : {<<"s">>}, contrast : Contrasts]
    /\ listing = CompListing
    /\ disk \in {[p \in {Join(args.path2img, CompListing[q]) : q \in 1..3} |->
                    [data   |-> IF KindOf(p) = "t1" THEN t1
                                ELSE IF KindOf(p) = "pd" THEN pd ELSE mt,
                     affine |-> <<IntToF(1)>>,
                     ok     |-> TRUE]] :
                  t1 \in [1..NVox -> T1Vals], pd \in [1..NVox -> PDVals],
                  mt \in [1..NVox -> MTVals]}
    /\ reg = parse_reg(args.reg).reg
    /\ fullpath2imgs = get_img_paths(args.path2img, args.echo, listing)
    /\ LET st == get_img_arrays(fullpath2imgs, <<>>, disk)
       IN  /\ bound = st.bound
           /\ refs = st.refs
           /\ heap = st.heap
    /\ pc = "compose"
    /\ idx = 1
    /\ err = "none"
    /\ mprage_like = 0
    /\ calls = <<>>
    /\ outs = <<>>
    /\ writes = <<>>
    /\ files = <<>>

NextComp == Compose

SpecComp == InitComp /\ [][NextComp]_vars

(***************************************************************************)
(* Properties.                                                             *)
(***************************************************************************)
Range(q) == {q[j] : j \in 1..Len(q)}

EchoTok == EchoPrefix \o PyStr(args.echo)

\* a contrast marker of kind k occurs in path p
HasMarker(k, p) ==
    CASE k = "t1" -> Contains(<<"t", "1">>, p) \/ Contains(<<"T", "1">>, p)
      [] k = "pd" -> Contains(<<"p", "d">>, p) \/ Contains(<<"P", "D">>, p)
      [] k = "mt" -> Contains(<<"m", "t">>, p) \/ Contains(<<"M", "T">>, p)

Prec(k) == CASE k = "t1" -> 1 [] k = "pd" -> 2 [] k = "mt" -> 3

\* candidate p counts for kind k: k is the first kind, in the precedence
\* T1, PD, MT, whose marker p carries
MatchesKind(p, k) ==
    /\ HasMarker(k, p)
    /\ \A k2 \in Kinds : Prec(k2) < Prec(k) => ~HasMarker(k2, p)

Candidates(k) == {j \in 1..Len(fullpath2imgs) : MatchesKind(fullpath2imgs[j], k)}

Matched(k) == Candidates(k) # {}

Required(w) == IF w = W_all THEN Kinds
               ELSE IF w = W_PD THEN {"t1", "pd"}
               ELSE IF w = W_MT THEN {"t1", "mt"} ELSE {}

\* the value of the mode's formula at voxel v of the volumes as they are on
\* disk, for the regularization value of the latest compositor call
RawAt(v) ==
    LET t1 == disk[bound.t1].data[v]
        pd == disk[bound.pd].data[v]
        mt == disk[bound.mt].data[v]
        r  == calls[Len(calls)]
    IN  CASE args.contrast = W_all ->
                 FDiv(FSubInt(t1, r), FAddInt(FHalf(FAdd(pd, mt)), r))
          [] args.contrast = W_MT -> FDiv(FSubInt(t1, r), FAddInt(mt, r))
          [] args.contrast = W_PD -> FDiv(FSubInt(t1, r), FAddInt(pd, r))

\* a is finite and 0 <= a <= 500
InRange(a) ==
    /\ a.k = "fin"
    /\ a.m = 0 \/ a.s = 1
    /\ ~FLess(IntToF(Threshold), a)

\* C1: in every mode, for every reg >= 0 and every voxel, the compositor
\* returns the raw value of the mode's formula when it is finite and in
\* [0, 500], and exactly 0 when it is NaN, +Inf, -Inf, above 500 or below 0;
\* so every output voxel is finite and in [0, 500].
C1_CleanedRatio ==
    pc = "save" =>
        \A v \in 1..NVox :
            /\ heap[mprage_like][v] =
                   (IF InRange(RawAt(v)) THEN RawAt(v) ELSE Zero(1))
            /\ InRange(heap[mprage_like][v])

C1_Witness ==
    /\ pc = "save"
    /\ \E v \in 1..NVox : RawAt(v) = NInf /\ heap[mprage_like][v] = Zero(1)

\* s.endswith(t)
EndsWith(s, t) ==
    /\ Len(s) >= Len(t)
    /\ SubSeq(s, Len(s) - Len(t) + 1, Len(s)) = t

NameEncodes(name, regtxt) ==
    /\ SubSeq(name, 1, Len(args.subid) + 1) = args.subid \o <<"_">>
    /\ Contains(<<"_", "e">> \o PyStr(args.echo) \o <<"_">>, name)
    /\ Contains(<<"_">> \o args.contrast \o <<"_">>, name)
    /\ EndsWith(name, <<"_", "r", "e", "g">> \o regtxt \o ExtNii)

\* one call per element in order, each with the value int() reads from the
\* element; one persist request per returned call; every name encodes
\* subject id, echo, mode and the value (it ends in the text the value was
\* read from, or in str(value) for a single value); artifacts of different
\* values have different names; the files left are the names written
CallsAndNamesInOrder ==
    /\ Len(writes) <= Len(calls)
    /\ Len(calls) <= Len(writes) + 1
    /\ reg.kind = "list" =>
           /\ \A j \in 1..Len(calls) :
                  /\ PyInt(reg.toks[j]).ok
                  /\ calls[j] = PyInt(reg.toks[j]).val
           /\ \A j \in 1..Len(writes) : NameEncodes(writes[j], reg.toks[j])
    /\ reg.kind = "int" =>
           /\ \A j \in 1..Len(calls) : calls[j] = reg.val
           /\ \A j \in 1..Len(writes) : NameEncodes(writes[j], PyStr(reg.val))
    /\ \A j1, j2 \in 1..Len(writes) :
           calls[j1] # calls[j2] => writes[j1] # writes[j2]
    /\ DOMAIN files = Range(writes)

\* the number of elements of the regularization spec
NumValues == IF reg.kind = "list" THEN Len(reg.toks) ELSE 1

\* C2, as stated: a list of N values gives N compositor calls and N persist
\* requests, one per element in list order; artifacts written for different
\* values have different names, each encoding subject id, echo, mode and its
\* own value, so a sweep leaves N distinct files; a single value gives one
\* call and one file.
C2_AsStated ==
    /\ CallsAndNamesInOrder
    /\ pc = "done" =>
           /\ Len(calls) = NumValues
           /\ Len(writes) = NumValues
           /\ Cardinality(DOMAIN files) = NumValues

\* C2, amended: a list of N values gives N compositor calls and N persist
\* requests, one per element in list order; artifacts written for different
\* values have different names, each encoding subject id, echo, mode and its
\* own value, so a sweep leaves N distinct files when the N values are
\* pairwise different, and fewer when an element repeats (one file per
\* distinct element, the repeated name being overwritten); a single value
\* gives one call and one file.  calls holds every call of mprage_like_img
\* the run has made, the one that raised included.
C2_SweepCallsAndNames ==
    /\ CallsAndNamesInOrder
    /\ pc = "done" =>
           /\ Len(calls) = NumValues
           /\ Len(writes) = NumValues
           /\ Cardinality(DOMAIN files) =
                  (IF reg.kind = "list" THEN Cardinality(Range(reg.toks))
                   ELSE 1)
           /\ (\A j1, j2 \in 1..Len(calls) : j1 # j2 => calls[j1] # calls[j2])
                  => Cardinality(DOMAIN files) = NumValues

C2_Witness ==
    /\ pc = "done"
    /\ reg.kind = "list"
    /\ Len(writes) = 2
    /\ calls[1] # calls[2]
    /\ Cardinality(DOMAIN files) = 2

SelectorReturned == pc \notin {"parse", "paths"}

SomeEchoNamed == \E f \in Range(listing) : Contains(EchoTok, f)

\* C3: when some file name carries the echo token, the selector returns
\* exactly the files whose name contains both '.nii' and the echo token and
\* neither phase marker.
C3_AsStated ==
    (SelectorReturned /\ SomeEchoNamed) =>
        Range(fullpath2imgs) =
            {Join(args.path2img, f) :
                f \in {g \in Range(listing) : /\ Contains(ExtNii, g)
                                              /\ Contains(EchoTok, g)
                                              /\ ~IsPhase(g)}}

\* C4: when no file name carries the echo token, the selector returns
\* exactly the files whose name contains '.nii', and in both branches no
\* returned path names a file with a phase marker.
C4_FallbackAndPhase ==
    SelectorReturned =>
        /\ ~SomeEchoNamed =>
               Range(fullpath2imgs) =
                   {Join(args.path2img, f) :
                       f \in {g \in Range(listing) : /\ Contains(ExtNii, g)
                                                     /\ ~IsPhase(g)}}
        /\ \A j \in 1..Len(fullpath2imgs) :
               \E f \in Range(listing) :
                   /\ fullpath2imgs[j] = Join(args.path2img, f)
                   /\ ~IsPhase(f)

C4_Witness ==
    /\ pc = "arrays"
    /\ ~SomeEchoNamed
    /\ fullpath2imgs # <<>>
    /\ \E f \in Range(listing) : IsPhase(f) /\ Contains(ExtNii, f)
    /\ \E f \in Range(listing) : ~Contains(ExtNii, f)

\* get_img_arrays scanned every candidate and returned its bindings
ScanDone == pc = "compose"

Max(S) == CHOOSE x \in S : \A y \in S : y <= x

Min(S) == CHOOSE x \in S : \A y \in S : x <= y

OnlyFirstKind ==
    \A k \in Kinds : \A j \in 1..Len(fullpath2imgs) :
        bound[k] = fullpath2imgs[j] => MatchesKind(fullpath2imgs[j], k)

\* C5, as stated: of several candidates of one kind the first in listing
\* order is the one bound at the end of the scan.
C5_AsStated ==
    ScanDone =>
        /\ \A k \in Kinds :
               bound[k] = (IF Matched(k) THEN fullpath2imgs[Min(Candidates(k))]
                           ELSE <<>>)
        /\ OnlyFirstKind

\* C5, amended: at most one candidate is bound per kind; of several
\* candidates of one kind the LAST in listing order is the one bound at the
\* end of the scan; a candidate with markers of several kinds is bound only
\* to the first of them in the precedence T1, PD, MT.
C5_LastMatchBound ==
    ScanDone =>
        /\ \A k \in Kinds :
               bound[k] = (IF Matched(k) THEN fullpath2imgs[Max(Candidates(k))]
                           ELSE <<>>)
        /\ OnlyFirstKind

C5_Witness ==
    /\ ScanDone
    /\ Cardinality(Candidates("t1")) >= 2
    /\ \E j \in Candidates("t1") : HasMarker("pd", fullpath2imgs[j])
    /\ bound.t1 = fullpath2imgs[Max(Candidates("t1"))]

MissingRequired == \E k \in Required(args.contrast) : ~Matched(k)

\* C6: when no candidate matches a kind the chosen mode requires (an empty
\* candidate set included), the run ends in a fatal error with no compositor
\* call and no artifact persisted at any point.
C6_MissingContrastFails ==
    (pc \notin {"parse", "paths", "arrays"} /\ MissingRequired) =>
        /\ pc = "failed"
        /\ calls = <<>>
        /\ outs = <<>>
        /\ writes = <<>>
        /\ files = <<>>

C6_Witness ==
    /\ pc = "failed"
    /\ err = "UnboundLocalError"
    /\ args.contrast = W_PD
    /\ Matched("t1")
    /\ ~Matched("pd")
    /\ writes = <<>>

\* C7: in mode PD a run that binds T1 and PD but no MT file, and in mode MT
\* a run that binds T1 and MT but no PD file, does not fail with the
\* missing-contrast error.
C7_AsStated ==
    (\/ args.contrast = W_PD /\ Matched("t1") /\ Matched("pd") /\ ~Matched("mt")
     \/ args.contrast = W_MT /\ Matched("t1") /\ Matched("mt") /\ ~Matched("pd"))
        => ~(pc = "failed" /\ err = "UnboundLocalError")

Count(ch, q) == Cardinality({j \in 1..Len(q) : q[j] = ch})

\* unbalanced brackets, or a bracketed list with a non-numeric element
Malformed(a) ==
    /\ a.kind = "str"
    /\ \/ Count("[", a.s) # Count("]", a.s)
       \/ /\ Contains(<<"[">>, a.s)
          /\ \E t \in Range(Split(Remove(Remove(a.s, "["), "]"), ",")) :
                 ~PyInt(t).ok

\* C8: a malformed regularization spec makes the run fail before any
\* compositor call, so nothing is persisted for any of its elements.
C8_AsStated ==
    Malformed(args.reg) =>
        /\ calls = <<>>
        /\ writes = <<>>
        /\ pc # "done"

\* C9: with --reg omitted and all contrasts present the run makes exactly
\* one compositor call with reg = 100 and persists exactly one artifact whose
\* name encodes reg 100.
C9_AsStated ==
    (/\ args.reg.kind = "int"
     /\ {F_t1_e1, F_pd_e1, F_mt_e1} \subseteq Range(listing)
     /\ \A p \in DOMAIN disk : disk[p].ok
     /\ pc \in {"done", "failed"}) =>
        /\ pc = "done"
        /\ calls = <<DefaultReg>>
        /\ Len(writes) = 1
        /\ NameEncodes(writes[1], PyStr(DefaultReg))

\* the three volumes are loaded
Loaded == \A k \in Kinds : refs[k] # 0

\* the artifact of a run of its own with the single value r
SingleRun(r) ==
    LET st  == get_img_arrays(fullpath2imgs, <<>>, disk)
        res == mprage_like_img(st.heap, st.refs.t1, st.refs.pd, st.refs.mt,
                               r, args.contrast)
    IN  [data |-> res.heap[res.ref], affine |-> st.heap[st.refs.aff]]

\* C10: the compositor leaves the loaded T1, PD and MT arrays and the affine
\* as they were loaded, no output aliases an input or another output, and the
\* artifact written for a value inside a sweep equals that of a single-value
\* run with the same value.
C10_InputsUntouched ==
    Loaded =>
        /\ \A k \in Kinds : heap[refs[k]] = disk[bound[k]].data
        /\ heap[refs.aff] = disk[bound.t1].affine
        /\ \A j1, j2 \in 1..Len(outs) : j1 # j2 => outs[j1] # outs[j2]
        /\ \A j \in 1..Len(outs) :
               outs[j] \notin {refs.t1, refs.pd, refs.mt, refs.aff}
        /\ \A j \in 1..Len(writes) : files[writes[j]] = SingleRun(calls[j])

C10_Witness ==
    /\ pc = "done"
    /\ Len(outs) = 2
    /\ calls[1] # calls[2]
    /\ files[writes[2]] = SingleRun(calls[2])
    /\ files[writes[1]] # files[writes[2]]

====
